---- MODULE Spec2Model ----
(***************************************************************************)
(* ovs-vtep (src/src/bin/main.rs): the serde decoders of the OVSDB        *)
(* hardware_vtep monitor payloads and the JSON-RPC session of main2.      *)
(*                                                                         *)
(* JSON values (serde_json::Value) are pairs <<tag, payload>>:            *)
(*   <<"null", 0>>  <<"number", n>>  <<"string", s>>                      *)
(*   <<"array", sequence of values>>                                      *)
(*   <<"object", function from key strings to values>>                    *)
(* Rust values: Option is <<>> (None) or <<v>> (Some(v)); Result is       *)
(* <<"Ok", v>> or <<"Err", message>>; Vec is a sequence; HashMap and      *)
(* structs are functions from keys / field names to values.               *)
(***************************************************************************)
EXTENDS Integers, Sequences, FiniteSets, TLC

Null == <<"null", 0>>
Num(n) == <<"number", n>>
Str(s) == <<"string", s>>
Arr(seq) == <<"array", seq>>
Obj(f) == <<"object", f>>
EmptyObj == Obj(<<>>)

None == <<>>
Some(v) == <<v>>
Ok(v) == <<"Ok", v>>
Err(m) == <<"Err", m>>
IsOk(r) == r[1] = "Ok"
IsErr(r) == r[1] = "Err"

\* The first error of a sequence of Results (the `?` operator leaves at the
\* first failing element).
FirstErr(rs) ==
    rs[CHOOSE i \in DOMAIN rs : IsErr(rs[i]) /\ \A j \in 1..(i - 1) : IsOk(rs[j])]

AllOk(rs) == \A i \in DOMAIN rs : IsOk(rs[i])

(***************************************************************************)
(* JsonUuidVisitor::parse: exactly ["uuid", <string>] yields the string.  *)
(***************************************************************************)
JsonUuidVisitor_parse(val) ==
    IF val[1] = "array"
    THEN IF Len(val[2]) # 2
         THEN Err("invalid length")
         ELSE LET emt1 == val[2][1]
                  emt2 == val[2][2]
              IN IF /\ emt1[1] = "string"
                    /\ emt1[2] = "uuid"
                    /\ emt2[1] = "string"
                 THEN Ok(emt2[2])
                 ELSE Err("expected [uuid, <uuid>]")
    ELSE Err("expected [uuid, <uuid>]")

\* JsonUuidVisitor::visit_seq collects every element and parses the array.
JsonUuidVisitor_visit_seq(seq) == JsonUuidVisitor_parse(Arr(seq))

(***************************************************************************)
(* JsonUuidSetVisitor::visit_seq: ["set", [pairs]] or a bare              *)
(* ["uuid", <string>].                                                     *)
(***************************************************************************)
\* A visit_seq that, under "set", takes a bare pair for a one-member list.
JsonUuidSetVisitor_visit_seq_shorthand(seq) ==
    IF Len(seq) < 2
    THEN Err("invalid length")
    ELSE LET emt1 == seq[1]
             emt2 == seq[2]
         IN IF emt1[1] = "string" /\ emt1[2] = "set"
            THEN IF emt2[1] = "array"
                 THEN LET whole == JsonUuidVisitor_parse(emt2)
                          rs == [i \in DOMAIN emt2[2] |->
                                     JsonUuidVisitor_parse(emt2[2][i])]
                      IN IF IsOk(whole)
                         THEN Ok(<<whole[2]>>)
                         ELSE IF AllOk(rs)
                              THEN Ok([i \in DOMAIN rs |-> rs[i][2]])
                              ELSE FirstErr(rs)
                 ELSE Err("Malformed JSON RPC set")
            ELSE IF emt1[1] = "string" /\ emt1[2] = "uuid"
                 THEN IF emt2[1] = "string"
                      THEN Ok(<<emt2[2]>>)
                      ELSE Err("Malformed JSON RPC uuid")
                 ELSE Err("expected set or uuid")

JsonUuidSetVisitor_visit_seq(seq) ==
    IF Len(seq) < 2
    THEN Err("invalid length")
    ELSE LET emt1 == seq[1]
             emt2 == seq[2]
         IN IF emt1[1] = "string" /\ emt1[2] = "set"
            THEN IF emt2[1] = "array"
                 THEN LET rs == [i \in DOMAIN emt2[2] |->
                                     JsonUuidVisitor_parse(emt2[2][i])]
                      IN IF AllOk(rs)
                         THEN Ok([i \in DOMAIN rs |-> rs[i][2]])
                         ELSE FirstErr(rs)
                 ELSE Err("Malformed JSON RPC set")
            ELSE IF emt1[1] = "string" /\ emt1[2] = "uuid"
                 THEN IF emt2[1] = "string"
                      THEN Ok(<<emt2[2]>>)
                      ELSE Err("Malformed JSON RPC uuid")
                 ELSE Err("expected set or uuid")

\* Deserializer::deserialize_seq on a serde_json::Value: only an array is a
\* sequence, and elements the visitor left unread are an error.
deserialize_seq(v, visited, consumed) ==
    IF v[1] # "array"
    THEN Err("invalid type")
    ELSE IF IsOk(visited) /\ Len(v[2]) > consumed
         THEN Err("invalid length")
         ELSE visited

deserialize_uuid_set(v) ==
    LET r == deserialize_seq(v, IF v[1] = "array"
                                THEN JsonUuidSetVisitor_visit_seq(v[2])
                                ELSE Err("invalid type"), 2)
    IN IF IsOk(r) THEN Ok(Some(r[2])) ELSE r

deserialize_uuid(v) ==
    LET r == deserialize_seq(v, IF v[1] = "array"
                                THEN JsonUuidVisitor_visit_seq(v[2])
                                ELSE Err("invalid type"),
                             IF v[1] = "array" THEN Len(v[2]) ELSE 0)
    IN IF IsOk(r) THEN Ok(Some(r[2])) ELSE r

\* JsonRpcMonitorEventParamsVisitor::visit_seq: the first two elements are
\* the key and the updates.
JsonRpcMonitorEventParamsVisitor_visit_seq(seq) ==
    IF Len(seq) < 2
    THEN Err("invalid length")
    ELSE Ok([key |-> seq[1], updates |-> seq[2]])

deserialize_monitor_event_params(v) ==
    deserialize_seq(v, IF v[1] = "array"
                       THEN JsonRpcMonitorEventParamsVisitor_visit_seq(v[2])
                       ELSE Err("invalid type"), 2)

(***************************************************************************)
(* The derived Deserialize impls.  A type is a tuple: <<"String">>,        *)
(* <<"u32">>, <<"unit">>, <<"Value">>, <<"Option", T>>, <<"Vec", T>>,      *)
(* <<"HashMap", T>>, <<"Struct", descriptor name>> or <<"with", function>> *)
(* for a #[serde(deserialize_with)] field.  A struct descriptor lists the  *)
(* fields in declaration order: the key on the wire (after rename), the    *)
(* Rust field name, the type and whether #[serde(default)] is set.         *)
(***************************************************************************)
Field(wire, name, ty, default) ==
    [wire |-> wire, name |-> name, ty |-> ty, default |-> default]

Container(fields, deny_unknown_fields) ==
    [fields |-> fields, deny_unknown_fields |-> deny_unknown_fields]

OptString == <<"Option", <<"String">>>>

JsonRpcError ==
    Container(<<Field("error", "error", <<"String">>, FALSE),
                Field("details", "details", <<"String">>, FALSE)>>, FALSE)

JsonRpcResult ==
    Container(<<Field("id", "id", <<"u32">>, FALSE),
                Field("result", "result", <<"Option", <<"Value">>>>, FALSE),
                Field("error", "error",
                      <<"Option", <<"Struct", "JsonRpcError">>>>, FALSE)>>, FALSE)

JsonRpcMonitorEvent ==
    Container(<<Field("id", "id", <<"unit">>, FALSE),
                Field("method", "method", <<"String">>, FALSE),
                Field("params", "params",
                      <<"with", "deserialize_monitor_event_params">>, FALSE)>>,
              FALSE)

JsonVtepPhysicalSwitchPart ==
    Container(<<Field("name", "name", OptString, FALSE),
                Field("ports", "ports", <<"with", "deserialize_uuid_set">>, TRUE),
                Field("tunnel_ips", "tunnel_ips", OptString, FALSE),
                Field("tunnels", "tunnels",
                      <<"with", "deserialize_uuid_set">>, TRUE)>>, FALSE)

JsonVtepPhysicalLocatorPart ==
    Container(<<Field("dst_ip", "dst_ip", OptString, FALSE),
                Field("encapsulation_type", "encapsulation_type",
                      OptString, FALSE)>>, FALSE)

JsonVtepPhysicalLocatorSetPart ==
    Container(<<Field("locators", "locators",
                      <<"Option", <<"Vec", <<"String">>>>>>, FALSE)>>, FALSE)

JsonVtepTunnelPart ==
    Container(<<Field("local", "local", <<"with", "deserialize_uuid">>, TRUE),
                Field("remote", "remote", <<"with", "deserialize_uuid">>, TRUE)>>,
              FALSE)

\* The four row-diff structs: old and new, each an optional row part.
JsonDiffOf(part) ==
    Container(<<Field("old", "old", <<"Option", <<"Struct", part>>>>, FALSE),
                Field("new", "new", <<"Option", <<"Struct", part>>>>, FALSE)>>,
              FALSE)

JsonDiffVtepPhysicalSwitch == JsonDiffOf("JsonVtepPhysicalSwitchPart")
JsonDiffVtepPhysicalLocator == JsonDiffOf("JsonVtepPhysicalLocatorPart")
JsonDiffVtepPhysicalLocatorSet == JsonDiffOf("JsonVtepPhysicalLocatorSetPart")
JsonDiffVtepTunnel == JsonDiffOf("JsonVtepTunnelPart")

JsonDiffFields ==
    <<Field("Physical_Switch", "physical_switch",
            <<"HashMap", <<"Struct", "JsonDiffVtepPhysicalSwitch">>>>, TRUE),
      Field("Physical_Locator", "physical_locator",
            <<"HashMap", <<"Struct", "JsonDiffVtepPhysicalLocator">>>>, TRUE),
      Field("Physical_Locator_Set", "physical_locator_set",
            <<"HashMap", <<"Struct", "JsonDiffVtepPhysicalLocatorSet">>>>, TRUE),
      Field("Tunnel", "tunnel",
            <<"HashMap", <<"Struct", "JsonDiffVtepTunnel">>>>, TRUE)>>

\* JsonDiff as it would be with #[serde(deny_unknown_fields)].
JsonDiff_deny_unknown_fields == Container(JsonDiffFields, TRUE)

JsonDiff == Container(JsonDiffFields, FALSE)

StructOf(name) ==
    CASE name = "JsonRpcError" -> JsonRpcError
      [] name = "JsonRpcResult" -> JsonRpcResult
      [] name = "JsonRpcMonitorEvent" -> JsonRpcMonitorEvent
      [] name = "JsonVtepPhysicalSwitchPart" -> JsonVtepPhysicalSwitchPart
      [] name = "JsonVtepPhysicalLocatorPart" -> JsonVtepPhysicalLocatorPart
      [] name = "JsonVtepPhysicalLocatorSetPart" -> JsonVtepPhysicalLocatorSetPart
      [] name = "JsonVtepTunnelPart" -> JsonVtepTunnelPart
      [] name = "JsonDiffVtepPhysicalSwitch" -> JsonDiffVtepPhysicalSwitch
      [] name = "JsonDiffVtepPhysicalLocator" -> JsonDiffVtepPhysicalLocator
      [] name = "JsonDiffVtepPhysicalLocatorSet" -> JsonDiffVtepPhysicalLocatorSet
      [] name = "JsonDiffVtepTunnel" -> JsonDiffVtepTunnel
      [] name = "JsonDiff" -> JsonDiff

\* The value of a field that the input does not carry: the Default of a
\* #[serde(default)] field, None for an Option, an error for the rest.
DefaultOf(ty) == IF ty[1] = "HashMap" THEN <<>> ELSE None

MissingField(f) ==
    IF f.default
    THEN Ok(DefaultOf(f.ty))
    ELSE IF f.ty[1] = "Option" THEN Ok(None) ELSE Err("missing field")

\* The numbers of the model are small integers: the upper limit of u32 is
\* never met, the lower one (no negative id) is.
\* Deserialize::deserialize on a serde_json::Value.  A struct is read from an
\* object by field name (unknown keys skipped) or from an array by position;
\* a failure is an Err with a coarse message (the text serde would give is
\* not modelled).
RECURSIVE Deserialize(_, _)
Deserialize(ty, v) ==
    CASE ty[1] = "Value" -> Ok(v)
      [] ty[1] = "String" ->
            IF v[1] = "string" THEN Ok(v[2]) ELSE Err("invalid type")
      [] ty[1] = "u32" ->
            IF v[1] = "number" /\ v[2] >= 0
            THEN Ok(v[2])
            ELSE Err("invalid type")
      [] ty[1] = "unit" ->
            IF v[1] = "null" THEN Ok(<<>>) ELSE Err("invalid type")
      [] ty[1] = "Option" ->
            IF v[1] = "null"
            THEN Ok(None)
            ELSE LET r == Deserialize(ty[2], v)
                 IN IF IsOk(r) THEN Ok(Some(r[2])) ELSE r
      [] ty[1] = "Vec" ->
            IF v[1] # "array"
            THEN Err("invalid type")
            ELSE LET rs == [i \in DOMAIN v[2] |-> Deserialize(ty[2], v[2][i])]
                 IN IF AllOk(rs)
                    THEN Ok([i \in DOMAIN rs |-> rs[i][2]])
                    ELSE FirstErr(rs)
      [] ty[1] = "HashMap" ->
            IF v[1] # "object"
            THEN Err("invalid type")
            ELSE LET rs == [k \in DOMAIN v[2] |-> Deserialize(ty[2], v[2][k])]
                 IN IF \A k \in DOMAIN rs : IsOk(rs[k])
                    THEN Ok([k \in DOMAIN rs |-> rs[k][2]])
                    ELSE Err("invalid entry")
      [] ty[1] = "with" ->
            IF ty[2] = "deserialize_uuid_set"
            THEN deserialize_uuid_set(v)
            ELSE IF ty[2] = "deserialize_uuid"
                 THEN deserialize_uuid(v)
                 ELSE deserialize_monitor_event_params(v)
      [] ty[1] = "Struct" ->
            LET c == StructOf(ty[2])
                fs == c.fields
                names == {fs[i].name : i \in DOMAIN fs}
                wires == {fs[i].wire : i \in DOMAIN fs}
                ByName(n) == CHOOSE i \in DOMAIN fs : fs[i].name = n
            IN CASE v[1] = "object" ->
                      LET rs == [i \in DOMAIN fs |->
                                    IF fs[i].wire \in DOMAIN v[2]
                                    THEN Deserialize(fs[i].ty, v[2][fs[i].wire])
                                    ELSE MissingField(fs[i])]
                      IN IF c.deny_unknown_fields /\ ~(DOMAIN v[2] \subseteq wires)
                         THEN Err("unknown field")
                         ELSE IF AllOk(rs)
                              THEN Ok([n \in names |-> rs[ByName(n)][2]])
                              ELSE Err("invalid field")
                 [] v[1] = "array" ->
                      LET rs == [i \in DOMAIN fs |->
                                    IF i <= Len(v[2])
                                    THEN Deserialize(fs[i].ty, v[2][i])
                                    ELSE IF fs[i].default
                                         THEN Ok(DefaultOf(fs[i].ty))
                                         ELSE Err("invalid length")]
                      IN IF ~AllOk(rs)
                         THEN Err("invalid field")
                         ELSE IF Len(v[2]) > Len(fs)
                              THEN Err("invalid length")
                              ELSE Ok([n \in names |-> rs[ByName(n)][2]])
                 [] OTHER -> Err("invalid type")

\* serde_json::from_value::<JsonDiff>
from_value_JsonDiff(v) == Deserialize(<<"Struct", "JsonDiff">>, v)

(***************************************************************************)
(* The inputs: OVSDB wire shapes of cells, row parts, row diffs and        *)
(* database diffs, well formed and malformed.                              *)
(***************************************************************************)
UuidPair(x) == Arr(<<Str("uuid"), Str(x)>>)
NamedUuidPair(x) == Arr(<<Str("named-uuid"), Str(x)>>)
SetOf(members) == Arr(<<Str("set"), Arr(members)>>)
\* ["set", ["uuid", x]]: the pair itself in the place of the member list.
SetOfBarePair(x) == Arr(<<Str("set"), UuidPair(x)>>)

Uuids == {"u1", "u2"}
Rows == {"r1", "r2"}
Halves == {"old", "new"}

CellValues ==
    {Str("sw1"), Str("10.0.0.1"), Null, Num(7), EmptyObj}
      \cup {UuidPair(x) : x \in Uuids}
      \cup {NamedUuidPair(x) : x \in Uuids}
      \cup {SetOf(<<>>)}
      \cup {SetOf(<<UuidPair(x)>>) : x \in Uuids}
      \cup {SetOf(<<UuidPair(x), UuidPair(y)>>) : x \in Uuids, y \in Uuids}
      \cup {SetOf(<<NamedUuidPair(x)>>) : x \in Uuids}
      \cup {SetOf(<<UuidPair(x), Str(y)>>) : x \in Uuids, y \in Uuids}
      \cup {SetOfBarePair(x) : x \in Uuids}
      \cup {Arr(<<Str("set"), Str(x)>>) : x \in Uuids}
      \cup {Arr(<<Str("uuid"), Str(x), Str(x)>>) : x \in Uuids}
      \cup {Arr(<<Str("uuid"), Num(1)>>), Arr(<<Str("uuid")>>),
            Arr(<<Str("bogus"), Num(1)>>), Arr(<<Num(1), Num(2), Num(3)>>),
            Arr(<<>>)}

ModelledTables ==
    {"Physical_Switch", "Physical_Locator", "Physical_Locator_Set", "Tunnel"}

\* A table the monitor request of main2 does not name.
UnmodelledTables == {"Logical_Switch"}

\* The columns main2 asks the monitor for, and one it does not.
Columns(t) ==
    CASE t = "Physical_Switch" -> {"name", "ports", "tunnel_ips", "tunnels"}
      [] t = "Physical_Locator" -> {"dst_ip", "encapsulation_type"}
      [] t = "Physical_Locator_Set" -> {"locators"}
      [] t = "Tunnel" -> {"local", "remote"}

UnknownColumn == "description"

\* The Rust field of JsonDiff that holds a table.
FieldOfTable(t) ==
    CASE t = "Physical_Switch" -> "physical_switch"
      [] t = "Physical_Locator" -> "physical_locator"
      [] t = "Physical_Locator_Set" -> "physical_locator_set"
      [] t = "Tunnel" -> "tunnel"

OneColumn(c, cell) == Obj(c :> cell)

RowParts(t) ==
    {EmptyObj}
      \cup {OneColumn(c, cell) : c \in Columns(t) \cup {UnknownColumn},
                                 cell \in CellValues}

\* The other half of a modify: a well-formed part of the table.
TwinParts(t) ==
    CASE t = "Physical_Switch" -> {OneColumn("name", Str("sw1"))}
      [] t = "Physical_Locator" -> {OneColumn("dst_ip", Str("10.0.0.1"))}
      [] t = "Physical_Locator_Set" -> {EmptyObj}
      [] t = "Tunnel" -> {OneColumn("local", UuidPair("u1"))}

RowDiffs(t) ==
    {Obj(h :> p) : h \in Halves, p \in RowParts(t)}
      \cup {Obj(("old" :> o) @@ ("new" :> p)) : o \in TwinParts(t),
                                                  p \in RowParts(t)}
      \cup {Obj(("old" :> Null) @@ ("new" :> p)) : p \in TwinParts(t)}
      \cup {EmptyObj, Obj(("old" :> Null) @@ ("new" :> Null)),
            Obj("other" :> EmptyObj), Null, Str("row"), Arr(<<>>)}

\* An insert of a well-formed row.
GoodRow(t) == Obj("new" :> CHOOSE p \in TwinParts(t) : TRUE)

TableDiffs(t) ==
    {Obj("r1" :> rd) : rd \in RowDiffs(t)}
      \cup {Obj(("r1" :> GoodRow(t)) @@ ("r2" :> rd)) :
                rd \in {EmptyObj, GoodRow(t), Obj("old" :> EmptyObj), Null}}
      \cup {EmptyObj, Null, Arr(<<>>)}

\* What an unmodelled table may hold: anything.
UnmodelledContents ==
    {EmptyObj, Num(1), Obj("r9" :> Obj("new" :> OneColumn("name", Num(3))))}

BasePayloads ==
    UNION {{Obj(t :> td) : td \in TableDiffs(t)} : t \in ModelledTables}
      \cup {Obj(("Physical_Switch" :> Obj("r1" :> GoodRow("Physical_Switch")))
                 @@ ("Tunnel" :> Obj("r2" :> rd))) :
                rd \in {GoodRow("Tunnel"), EmptyObj, Null}}
      \cup {EmptyObj}

DiffPayloads ==
    BasePayloads
      \cup {Obj(p[2] @@ (u :> x)) : p \in BasePayloads, u \in UnmodelledTables,
                                    x \in UnmodelledContents}
      \cup {Null, Num(1), Str("hardware_vtep")}

(***************************************************************************)
(* The JSON-RPC messages of the peer (ovsdb-server, or anything else at    *)
(* the other end of the socket).                                           *)
(***************************************************************************)
Response(id, result, error) ==
    Obj(("id" :> id) @@ ("result" :> result) @@ ("error" :> error))

Notification(key, updates) ==
    Obj(("id" :> Null) @@ ("method" :> Str("update"))
          @@ ("params" :> Arr(<<key, updates>>)))

ErrorObject ==
    Obj(("error" :> Str("unknown database")) @@ ("details" :> Str("no such db")))

\* Another error member: other strings, and a member JsonRpcError has not.
VerboseError ==
    Obj(("error" :> Str("constraint violation")) @@ ("details" :> Str(""))
          @@ ("syntax" :> Num(1)))

\* The error member as an array: the two fields by position.
ArrayError == Arr(<<Str("not supported"), Str("monitor")>>)

InsertSwitch(name) ==
    Obj("Physical_Switch" :> Obj("r1" :> Obj("new" :> OneColumn("name", Str(name)))))

\* A payload from_value::<JsonDiff> rejects: ports is no set of UUIDs.
MalformedDiff ==
    Obj("Physical_Switch" :>
          Obj("r1" :> Obj("new" :> OneColumn("ports",
                                             Arr(<<Str("bogus"), Num(1)>>)))))

Responses ==
    {Response(Num(0), r, Null) : r \in {InsertSwitch("sw1"), MalformedDiff, Null}}
      \cup {Response(Num(1), EmptyObj, Null),
            Response(Num(1), Null, ErrorObject),
            Response(Num(0), EmptyObj, VerboseError),
            Arr(<<Num(1), Null, ArrayError>>),
            Response(Num(0), EmptyObj, Str("failed")),
            Arr(<<Num(0), EmptyObj, Null>>),
            Arr(<<Num(0), EmptyObj>>)}

Notifications ==
    {Notification(Str("hardware_vtep"), u) : u \in {InsertSwitch("sw2"), MalformedDiff}}
      \cup {Notification(Str("Open_vSwitch"), MalformedDiff),
            Notification(Str("Other_db"), EmptyObj),
            Notification(Num(1), EmptyObj),
            Arr(<<Null, Str("update"), Arr(<<Str("hardware_vtep"), EmptyObj>>)>>)}

Messages == Responses \cup Notifications

\* The most messages the peer sends in a session, and the most that wait
\* unread in the socket at a time.
MaxSent == 5
MaxInFlight == 2

Pending == <<"pending", 0>>

VARIABLES
    value,      \* the JSON value last handed to serde_json::from_value
    d,          \* Pending, or the Result of decoding it as a JsonDiff
    from_value_calls,   \* how many times from_value::<JsonDiff> has run
    pc,         \* where main2 is: echo, monitor_vtep, monitor_ovs, loop
    status,     \* running, or how main2 ended: Ok, Err(msg), panic
    sent,       \* every message the peer has written to the socket, in order
    closed,     \* the peer sends no more: it shut down its writing, or closed
    released,   \* the peer has closed its socket: it receives no more
    reset,      \* ECONNRESET is pending on the client's socket
    unread,     \* requests of the client lie unread in the peer's socket
    nread,      \* how many of the messages the client has read
    requests,   \* the requests the client has written
    printed     \* the lines printed

decode_vars == <<value, d, from_value_calls>>
peer_vars == <<sent, closed, released, reset, unread>>
session_vars == <<pc, status, sent, closed, released, reset, unread, nread,
                  requests, printed>>
vars == <<value, d, from_value_calls, pc, status, sent, closed, released,
          reset, unread, nread, requests, printed>>

Running == [kind |-> "running", msg |-> ""]
ExitOk == [kind |-> "Ok", msg |-> ""]
ExitErr(m) == [kind |-> "Err", msg |-> m]
Panic == [kind |-> "panic", msg |-> "called Result::unwrap() on an Err value"]

SessionInit ==
    /\ pc = "echo"
    /\ status = Running
    /\ sent = <<>>
    /\ closed = FALSE
    /\ released = FALSE
    /\ reset = FALSE
    /\ unread = FALSE
    /\ nread = 0
    /\ requests = <<>>
    /\ printed = <<>>

(***************************************************************************)
(* jsonrpc_result and jsonrpc_communicate.                                 *)
(***************************************************************************)
\* A jsonrpc_result that looks at the id before the error member.
jsonrpc_result_id_first(expect_id, result) ==
    IF result.id # expect_id
    THEN Err("Response ID mismatch")
    ELSE IF result.error # None
         THEN Err("JSON RPC error: {error}, {details}")
         ELSE IF result.result = None
              THEN Err("Malformed JSON RPC response with neither error, nor result.")
              ELSE Ok(result.result[1])

jsonrpc_result(expect_id, result) ==
    IF result.error # None
    THEN Err("JSON RPC error: {error}, {details}")
    ELSE IF result.id # expect_id
         THEN Err("Response ID mismatch")
         ELSE IF result.result = None
              THEN Err("Malformed JSON RPC response with neither error, nor result.")
              ELSE Ok(result.result[1])

\* The item the stream iterator yields when the read of the socket fails:
\* an io error in place of a value.
ConnectionReset == <<"io error", "Connection reset by peer (os error 104)">>

\* format!("JSON RPC error: {}", err) for that item.
StreamError == "JSON RPC error: Connection reset by peer (os error 104)"

\* write_ok: write_all succeeded; incoming: <<>> at the end of the stream,
\* <<m>> for the next message m of the stream, <<ConnectionReset>> when the
\* read fails.
jsonrpc_communicate(write_ok, incoming) ==
    IF ~write_ok
    THEN Err("Failed to write request")
    ELSE IF incoming = <<>>
         THEN Err("No JSON RPC response.")
         ELSE IF incoming = <<ConnectionReset>>
              THEN Err(StreamError)
              ELSE LET val == Deserialize(<<"Struct", "JsonRpcResult">>, incoming[1])
                   IN IF IsErr(val)
                      THEN Err("JSON RPC error: {err}")
                      ELSE jsonrpc_result(0, val[2])

\* The next item of the stream: blocks (is undefined) while the peer has
\* sent nothing more and has not closed. What the peer sent is read first;
\* after it a pending reset fails the read, and otherwise the stream ends.
CanRead == nread < Len(sent) \/ closed

\* An iterator that yields the newest of the messages waiting in the socket
\* in place of the oldest.
Incoming_newest ==
    IF nread < Len(sent)
    THEN <<sent[Len(sent)]>>
    ELSE IF reset THEN <<ConnectionReset>> ELSE <<>>

Incoming ==
    IF nread < Len(sent)
    THEN <<sent[nread + 1]>>
    ELSE IF reset THEN <<ConnectionReset>> ELSE <<>>

\* The request main2 sends at each position.
RequestOf(at) ==
    CASE at = "echo" -> "echo"
      [] at = "monitor_vtep" -> "monitor hardware_vtep"
      [] at = "monitor_ovs" -> "monitor Open_vSwitch"

\* jsonrpc_communicate has written its request and waits in the read.
Awaiting == Len(requests) = nread + 1

\* jsonrpc_communicate, lines 280-287: the request is written; write_all
\* fails once the peer has closed its socket, it returns the error and the
\* `?` of main2 returns it.
WriteRequest ==
    LET write_ok == ~released IN
        /\ pc \in {"echo", "monitor_vtep", "monitor_ovs"}
        /\ status = Running
        /\ ~Awaiting
        /\ IF write_ok
           THEN /\ requests' = Append(requests, RequestOf(pc))
                /\ unread' = TRUE
                /\ UNCHANGED status
           ELSE /\ status' = ExitErr(jsonrpc_communicate(FALSE, <<>>)[2])
                /\ UNCHANGED <<requests, unread>>
        /\ UNCHANGED <<pc, sent, closed, released, reset, nread, printed,
                       decode_vars>>

\* jsonrpc_communicate, lines 289-293: the read of the next item of the
\* stream, once the request is written.
Communicate ==
    /\ pc \in {"echo", "monitor_vtep", "monitor_ovs"}
    /\ status = Running
    /\ Awaiting
    /\ CanRead
    /\ nread' = IF nread < Len(sent) THEN nread + 1 ELSE nread
    /\ UNCHANGED <<peer_vars, requests>>

\* main2, lines 300-303.
Echo ==
      LET r == jsonrpc_communicate(TRUE, Incoming) IN
        /\ pc = "echo"
        /\ Communicate
        /\ IF IsErr(r)
           THEN /\ status' = ExitErr(r[2])
                /\ UNCHANGED <<pc, printed>>
           ELSE /\ printed' = Append(printed, <<"echo", r[2]>>)
                /\ pc' = "monitor_vtep"
                /\ UNCHANGED status
        /\ UNCHANGED decode_vars

\* main2, lines 305-325: the result of the monitor is decoded and unwrapped.
MonitorVtep ==
      LET r == jsonrpc_communicate(TRUE, Incoming) IN
        /\ pc = "monitor_vtep"
        /\ Communicate
        /\ IF IsErr(r)
           THEN /\ status' = ExitErr(r[2])
                /\ UNCHANGED <<pc, printed, decode_vars>>
           ELSE LET dd == from_value_JsonDiff(r[2])
                IN /\ value' = r[2]
                   /\ d' = dd
                   /\ from_value_calls' = from_value_calls + 1
                   /\ IF IsErr(dd)
                      THEN /\ status' = Panic
                           /\ printed' = Append(printed, <<"monitor", r[2]>>)
                           /\ UNCHANGED pc
                      ELSE /\ printed' = printed \o <<<<"monitor", r[2]>>,
                                                      <<"JsonDiff", dd[2]>>>>
                           /\ pc' = "monitor_ovs"
                           /\ UNCHANGED status

\* main2, lines 327-336.
MonitorOvs ==
      LET r == jsonrpc_communicate(TRUE, Incoming) IN
        /\ pc = "monitor_ovs"
        /\ Communicate
        /\ IF IsErr(r)
           THEN /\ status' = ExitErr(r[2])
                /\ UNCHANGED <<pc, printed>>
           ELSE /\ printed' = Append(printed, <<"Open_vSwitch", r[2]>>)
                /\ pc' = "loop"
                /\ UNCHANGED status
        /\ UNCHANGED decode_vars

(***************************************************************************)
(* The body of the notification loop for one item of the stream: what it   *)
(* prints, how it leaves main2 (or Running), and the payloads it decodes.  *)
(***************************************************************************)
Step(lines, st, payloads) == [print |-> lines, status |-> st, decode |-> payloads]

\* As loop_body, but with one subscription only: the key is not looked at.
loop_body_any_key(m) ==
    LET val == Deserialize(<<"Struct", "JsonRpcMonitorEvent">>, m)
    IN IF IsErr(val)
       THEN Step(<<>>, ExitErr("JSON RPC error: {err}"), <<>>)
       ELSE LET dd == from_value_JsonDiff(val[2].params.updates)
            IN IF IsErr(dd)
               THEN Step(<<>>, Panic, <<val[2].params.updates>>)
               ELSE Step(<<<<"VTEP update", dd[2]>>>>, Running,
                         <<val[2].params.updates>>)

loop_body(m) ==
    LET val == Deserialize(<<"Struct", "JsonRpcMonitorEvent">>, m)
    IN IF IsErr(val)
       THEN Step(<<>>, ExitErr("JSON RPC error: {err}"), <<>>)
       ELSE LET res == val[2]
            IN IF res.params.key[1] = "string"
               THEN LET dbname == res.params.key[2]
                    IN IF dbname = "hardware_vtep"
                       THEN LET dd == from_value_JsonDiff(res.params.updates)
                            IN IF IsErr(dd)
                               THEN Step(<<>>, Panic, <<res.params.updates>>)
                               ELSE Step(<<<<"VTEP update", dd[2]>>>>, Running,
                                         <<res.params.updates>>)
                       ELSE IF dbname = "Open_vSwitch"
                            THEN Step(<<<<"OVS update", res.params.updates>>>>,
                                      Running, <<>>)
                            ELSE Step(<<>>,
                                      ExitErr("Monitor event relating to an unknown database"),
                                      <<>>)
               ELSE Step(<<>>, ExitErr("Invalid monitor event key"), <<>>)

\* main2, lines 338-352: one iteration.
MonitorEvent ==
    /\ pc = "loop"
    /\ status = Running
    /\ CanRead
    /\ Incoming \notin {<<>>, <<ConnectionReset>>}
    /\ LET step == loop_body(Incoming[1])
       IN /\ nread' = nread + 1
          /\ printed' = printed \o step.print
          /\ status' = step.status
          /\ IF step.decode = <<>>
             THEN UNCHANGED decode_vars
             ELSE /\ value' = step.decode[1]
                  /\ d' = from_value_JsonDiff(step.decode[1])
                  /\ from_value_calls' = from_value_calls + 1
    /\ UNCHANGED <<pc, peer_vars, requests>>

\* main2, line 339: the read of the socket fails, the iterator yields the
\* io error and the `?` returns it.
ReadError ==
    /\ pc = "loop"
    /\ status = Running
    /\ CanRead
    /\ Incoming = <<ConnectionReset>>
    /\ status' = ExitErr(StreamError)
    /\ UNCHANGED <<pc, peer_vars, nread, requests, printed, decode_vars>>

\* main2, line 354: the stream has ended.
EndOfStream ==
    /\ pc = "loop"
    /\ status = Running
    /\ CanRead
    /\ Incoming = <<>>
    /\ status' = ExitOk
    /\ UNCHANGED <<pc, peer_vars, nread, requests, printed, decode_vars>>

\* The peer of the socket. It writes a message.
PeerSend ==
    \E m \in Messages :
        /\ status = Running
        /\ ~closed
        /\ Len(sent) < MaxSent
        /\ Len(sent) - nread < MaxInFlight
        /\ sent' = Append(sent, m)
        /\ UNCHANGED <<pc, status, closed, released, reset, unread, nread,
                       requests, printed, decode_vars>>

\* It reads what the client has written.
PeerRead ==
    /\ status = Running
    /\ ~released
    /\ unread
    /\ unread' = FALSE
    /\ UNCHANGED <<pc, status, sent, closed, released, reset, nread,
                   requests, printed, decode_vars>>

\* It shuts down its writing (shutdown(SHUT_WR)): the client's stream ends
\* after what was sent, the client's requests are still received.
PeerShutdown ==
    /\ status = Running
    /\ ~closed
    /\ closed' = TRUE
    /\ UNCHANGED <<pc, status, sent, released, reset, unread, nread,
                   requests, printed, decode_vars>>

\* It closes its socket: the client's writes fail from then on, and with
\* requests of the client unread in it the client's socket is reset.
PeerClose ==
    /\ status = Running
    /\ ~released
    /\ closed' = TRUE
    /\ released' = TRUE
    /\ reset' = unread
    /\ UNCHANGED <<pc, status, sent, unread, nread, requests, printed,
                   decode_vars>>

Init ==
    /\ SessionInit
    /\ value = Null
    /\ d = Pending
    /\ from_value_calls = 0

Next ==
    \/ WriteRequest
    \/ Echo
    \/ MonitorVtep
    \/ MonitorOvs
    \/ MonitorEvent
    \/ ReadError
    \/ EndOfStream
    \/ PeerSend
    \/ PeerRead
    \/ PeerShutdown
    \/ PeerClose

Spec == Init /\ [][Next]_vars

(***************************************************************************)
(* The decoder alone: from_value::<JsonDiff> applied to one payload.       *)
(***************************************************************************)
DecodeInit ==
    /\ SessionInit
    /\ value \in DiffPayloads
    /\ d = Pending
    /\ from_value_calls = 0

\* let d: JsonDiff = sj::from_value(...)
FromValue ==
    /\ d = Pending
    /\ d' = from_value_JsonDiff(value)
    /\ from_value_calls' = from_value_calls + 1
    /\ UNCHANGED <<value, session_vars>>

DecodeNext == FromValue

SpecDecode == DecodeInit /\ [][DecodeNext]_vars

(***************************************************************************)
(* The shapes the properties speak of, read off the wire format.           *)
(***************************************************************************)
\* The member of a message that a field of a derived struct is read from:
\* by name in an object, by position in an array; <<>> when it is not there.
Member(m, name, pos) ==
    CASE m[1] = "object" ->
            IF name \in DOMAIN m[2] THEN <<m[2][name]>> ELSE <<>>
      [] m[1] = "array" ->
            IF pos <= Len(m[2]) THEN <<m[2][pos]>> ELSE <<>>
      [] OTHER -> <<>>

\* An array is read as a struct only with exactly its fields: Option members
\* may be left out of an object, not of an array.
WholeStruct(m, fields) == m[1] = "array" => Len(m[2]) = fields

\* A response jsonrpc_communicate accepts: id 0, a result, no error.
ValidResponse(m) ==
    /\ WholeStruct(m, 3)
    /\ Member(m, "id", 1) = <<Num(0)>>
    /\ Member(m, "result", 2) \notin {<<>>, <<Null>>}
    /\ Member(m, "error", 3) \in {<<>>, <<Null>>}

\* A value read as a JsonRpcError: two strings, error and details, by name
\* in an object (whatever else it holds) or by position in an array.
IsErrorMember(e) ==
    /\ WholeStruct(e, 2)
    /\ Member(e, "error", 1) # <<>>
    /\ Member(e, "error", 1)[1][1] = "string"
    /\ Member(e, "details", 2) # <<>>
    /\ Member(e, "details", 2)[1][1] = "string"

\* A response that carries an error member: an id that is a u32, and an
\* error that is not null and is read as a JsonRpcError.
HasError(m) ==
    /\ WholeStruct(m, 3)
    /\ Member(m, "id", 1) # <<>>
    /\ Member(m, "id", 1)[1][1] = "number"
    /\ Member(m, "id", 1)[1][2] >= 0
    /\ Member(m, "error", 3) \notin {<<>>, <<Null>>}
    /\ IsErrorMember(Member(m, "error", 3)[1])

\* An update notification: null id, a method, [key, updates].
IsEvent(m) ==
    /\ WholeStruct(m, 3)
    /\ Member(m, "id", 1) = <<Null>>
    /\ Member(m, "method", 2) # <<>>
    /\ Member(m, "method", 2)[1][1] = "string"
    /\ Member(m, "params", 3) # <<>>
    /\ Member(m, "params", 3)[1][1] = "array"
    /\ Len(Member(m, "params", 3)[1][2]) = 2

EventKey(m) == Member(m, "params", 3)[1][2][1]
EventUpdates(m) == Member(m, "params", 3)[1][2][2]

IsVtepEvent(m) == IsEvent(m) /\ EventKey(m) = Str("hardware_vtep")
IsOvsEvent(m) == IsEvent(m) /\ EventKey(m) = Str("Open_vSwitch")

\* The messages the notification loop has read: those after the three
\* responses.
LoopReads == 4..nread

\* The lines of the loop: those after the four of the handshake.
LoopLines == SubSeq(printed, 5, Len(printed))

UnknownSubscription ==
    {ExitErr("Monitor event relating to an unknown database"),
     ExitErr("Invalid monitor event key")}

VtepEventsRead == {i \in LoopReads : IsVtepEvent(sent[i])}

\* C1 as stated: In the notification loop, every update notification whose
\* key is not "hardware_vtep" fails with the unknown-subscription error
\* (and is the last one read), "Open_vSwitch" included.
C1_OnlyVtepKeyAccepted ==
    pc = "loop" =>
        \A i \in LoopReads :
            (IsEvent(sent[i]) /\ EventKey(sent[i]) # Str("hardware_vtep"))
                => (i = nread /\ status \in UnknownSubscription)

\* C1 amended: In the notification loop, every update notification whose
\* key is neither "hardware_vtep" nor "Open_vSwitch" fails with the
\* unknown-database (or invalid-key) error; one keyed "Open_vSwitch" does
\* not fail (after it main2 runs on, or ends with the stream), its payload
\* is printed as it came; and from_value::<JsonDiff>
\* runs for the notifications keyed "hardware_vtep" only.
C1_UnknownKeyRejected ==
    pc = "loop" =>
        /\ \A i \in LoopReads :
              IsEvent(sent[i]) =>
                  /\ EventKey(sent[i]) \notin {Str("hardware_vtep"), Str("Open_vSwitch")}
                        => (i = nread /\ status \in UnknownSubscription)
                  /\ IsOvsEvent(sent[i])
                        => /\ i = nread =>
                                 status \in {Running, ExitOk, ExitErr(StreamError)}
                           /\ \E k \in DOMAIN LoopLines :
                                 LoopLines[k] = <<"OVS update", EventUpdates(sent[i])>>
        /\ from_value_calls = 1 + Cardinality(VtepEventsRead)

\* C1 witness: an Open_vSwitch notification with a payload that is no
\* database diff was accepted, and then an unknown key ended the loop.
C1_Witness ==
    /\ pc = "loop"
    /\ nread = 5
    /\ sent[4] = Notification(Str("Open_vSwitch"), MalformedDiff)
    /\ sent[5] = Notification(Str("Other_db"), EmptyObj)
    /\ status = ExitErr("Monitor event relating to an unknown database")
    /\ from_value_calls = 1

\* C3: On a malformed diff payload (monitor result or hardware_vtep
\* notification) the program never panics: main2 never ends in a panic.
C3_NeverPanics == status.kind # "panic"

\* The decoded diffs of the payloads the peer sends in hardware_vtep
\* notifications, written out: the diff of no change, and that of the
\* insertion of a switch called name in row r1.
EmptyDiff ==
    [physical_switch |-> <<>>, physical_locator |-> <<>>,
     physical_locator_set |-> <<>>, tunnel |-> <<>>]

SwitchInserted(name) ==
    [EmptyDiff EXCEPT !.physical_switch =
        "r1" :> [old |-> None,
                 new |-> Some([name |-> Some(name), ports |-> None,
                               tunnel_ips |-> None, tunnels |-> None])]]

\* Payloads the peer sends, each with the diff it is the encoding of,
\* written out: <<payload, diff>>.
KnownDiffs ==
    {<<EmptyObj, EmptyDiff>>}
      \cup {<<InsertSwitch(name), SwitchInserted(name)>> : name \in {"sw1", "sw2"}}

\* A message the loop handles and goes on from: a hardware_vtep
\* notification whose payload from_value decodes, or an Open_vSwitch one.
Handled(m) ==
    \/ IsVtepEvent(m) /\ IsOk(from_value_JsonDiff(EventUpdates(m)))
    \/ IsOvsEvent(m)

\* The line of a handled message, from that message alone.
LineOf(m) ==
    IF IsVtepEvent(m)
    THEN <<"VTEP update", from_value_JsonDiff(EventUpdates(m))[2]>>
    ELSE <<"OVS update", EventUpdates(m)>>

\* C9: In the notification loop messages are handled in receipt order, one
\* at a time: every message read but the last has been handled, and the
\* last too unless it ended main2; the k-th line printed is the line of the
\* k-th message read, whatever was read before it and whatever waits behind
\* it in the socket; a hardware_vtep notification prints the diff of its
\* own payload, which is the diff written out for that payload in
\* KnownDiffs; and from_value has run once for the monitor result and once
\* for each hardware_vtep notification read, last on the payload of the
\* last of them.
C9_ReceiptOrder ==
    pc = "loop" =>
        /\ nread >= 3
        /\ nread <= Len(sent)
        /\ \A i \in LoopReads : (i < nread \/ status = Running) => Handled(sent[i])
        /\ Len(LoopLines) = Cardinality({i \in LoopReads : Handled(sent[i])})
        /\ \A k \in DOMAIN LoopLines :
              /\ LoopLines[k] = LineOf(sent[3 + k])
              /\ IsVtepEvent(sent[3 + k])
                    => \E p \in KnownDiffs :
                          /\ p[1] = EventUpdates(sent[3 + k])
                          /\ LoopLines[k] = <<"VTEP update", p[2]>>
        /\ from_value_calls = 1 + Cardinality(VtepEventsRead)
        /\ \A i \in VtepEventsRead :
              i = nread
                  => /\ value = EventUpdates(sent[i])
                     /\ \/ \E p \in KnownDiffs : p[1] = value /\ d = Ok(p[2])
                        \/ /\ \A p \in KnownDiffs : p[1] # value
                           /\ IsErr(d)
                           /\ status = Panic

\* C9 witness: two different hardware_vtep notifications, one an object and
\* one an array, were read and handled, each in its turn and each with the
\* diff of its own payload (the peer may send the second before the first
\* is read).
C9_Witness ==
    /\ pc = "loop"
    /\ status = Running
    /\ nread = 5
    /\ sent[4] = Notification(Str("hardware_vtep"), InsertSwitch("sw2"))
    /\ sent[5] = Arr(<<Null, Str("update"), Arr(<<Str("hardware_vtep"), EmptyObj>>)>>)
    /\ LoopLines = <<<<"VTEP update", SwitchInserted("sw2")>>,
                     <<"VTEP update", EmptyDiff>>>>
    /\ from_value_calls = 3

StepOf(i) ==
    CASE i = 1 -> "echo"
      [] i = 2 -> "monitor_vtep"
      [] i = 3 -> "monitor_ovs"

HandshakeReads == 1..(IF nread < 3 THEN nread ELSE 3)

\* C10: jsonrpc_communicate takes the first message after its request for the
\* response and reads no other: a message that is not a valid response
\* (id 0, result present, no error) ends main2 with an Err at that request
\* and is the last one read, a valid one never gives an Err; an error member
\* is reported before an id mismatch; a request whose read ends with no
\* message gives an Err as well (the stream ended, or the socket was reset);
\* and the loop is entered only after three requests, in order, each
\* answered by a valid first message.
C10_FirstMessageIsResponse ==
    /\ \A i \in HandshakeReads :
          /\ ~ValidResponse(sent[i])
                => /\ i = nread
                   /\ pc = StepOf(i)
                   /\ status.kind = "Err"
          /\ ValidResponse(sent[i]) /\ i = nread /\ pc = StepOf(i)
                => status.kind # "Err"
          /\ HasError(sent[i]) => status.msg = "JSON RPC error: {error}, {details}"
    /\ (status.kind = "Err" /\ Awaiting)
          => /\ nread = Len(sent)
             /\ closed
             /\ status.msg = IF reset THEN StreamError ELSE "No JSON RPC response."
    /\ pc # "loop" => nread <= Len(requests)
    /\ Len(requests) <= nread + 1
    /\ Len(requests) <= 3
    /\ requests = SubSeq(<<"echo", "monitor hardware_vtep", "monitor Open_vSwitch">>,
                         1, Len(requests))
    /\ pc = "loop" =>
          /\ Len(requests) = 3
          /\ nread >= 3
          /\ \A i \in 1..3 : ValidResponse(sent[i])

\* C10 witness: an update of the hardware_vtep monitor came before the
\* response to the Open_vSwitch monitor request, and failed that request.
C10_Witness ==
    /\ pc = "monitor_ovs"
    /\ nread = 3
    /\ ValidResponse(sent[1])
    /\ ValidResponse(sent[2])
    /\ sent[3] = Notification(Str("hardware_vtep"), InsertSwitch("sw2"))
    /\ status = ExitErr("JSON RPC error: {err}")
    /\ Len(requests) = 3

(***************************************************************************)
(* Properties of the decoder, under SpecDecode.                            *)
(***************************************************************************)
\* A database diff of one table, one row, one half, one column.
OneCell(t, r, h, c, cell) == Obj(t :> Obj(r :> Obj(h :> OneColumn(c, cell))))

\* The column of that row part in the decoded diff.
DecodedCell(t, r, h, c) == d[2][FieldOfTable(t)][r][h][1][c]

\* The set-of-references columns, and those of them decoded by
\* deserialize_uuid_set; the single-reference columns.
RefSetColumns ==
    {<<"Physical_Switch", "ports">>, <<"Physical_Switch", "tunnels">>,
     <<"Physical_Locator_Set", "locators">>}
UuidSetColumns ==
    {<<"Physical_Switch", "ports">>, <<"Physical_Switch", "tunnels">>}
UuidRefColumns == {<<"Tunnel", "local">>, <<"Tunnel", "remote">>}

\* The row diffs of a decoded database diff.
DecodedRowDiffs ==
    UNION {{d[2][FieldOfTable(t)][r] : r \in DOMAIN d[2][FieldOfTable(t)]} :
              t \in ModelledTables}

\* C2: Every row diff of a successfully decoded database diff has at least
\* one of old/new present (a row entry with neither makes the decode fail).
C2_OldOrNewPresent ==
    IsOk(d) => \A rd \in DecodedRowDiffs : rd.old # None \/ rd.new # None

\* C4: For every reference-set column (ports, tunnels, locators) and every
\* UUID x, ["uuid", x] and ["set", [["uuid", x]]] both decode to the
\* one-member set [x].
C4_BarePairIsSingleton ==
    d # Pending =>
        \A tc \in RefSetColumns, r \in Rows, h \in Halves, x \in Uuids :
            value \in {OneCell(tc[1], r, h, tc[2], UuidPair(x)),
                       OneCell(tc[1], r, h, tc[2], SetOf(<<UuidPair(x)>>))}
                => /\ IsOk(d)
                   /\ DecodedCell(tc[1], r, h, tc[2]) = Some(<<x>>)

\* C5 as stated: For every UUID x, ["set", ["uuid", x]] decodes as
\* ["set", [["uuid", x]]] does, to the one-member set [x], and not to an
\* error.
C5_SetOfBarePairDecodes ==
    d # Pending =>
        \A tc \in UuidSetColumns, r \in Rows, h \in Halves, x \in Uuids :
            value = OneCell(tc[1], r, h, tc[2], SetOfBarePair(x))
                => /\ IsOk(d)
                   /\ d = from_value_JsonDiff(
                            OneCell(tc[1], r, h, tc[2], SetOf(<<UuidPair(x)>>)))

\* C5 amended: For every UUID x, ["set", ["uuid", x]] is rejected with a
\* decode error (its members "uuid" and x are no ["uuid", <uuid>] pairs),
\* while ["set", [["uuid", x]]] decodes to the one-member set [x].
C5_SetOfBarePairRejected ==
    d # Pending =>
        \A tc \in UuidSetColumns, r \in Rows, h \in Halves, x \in Uuids :
            /\ value = OneCell(tc[1], r, h, tc[2], SetOfBarePair(x)) => IsErr(d)
            /\ value = OneCell(tc[1], r, h, tc[2], SetOf(<<UuidPair(x)>>))
                  => /\ IsOk(d)
                     /\ DecodedCell(tc[1], r, h, tc[2]) = Some(<<x>>)

\* C5 witness: ports = ["set", ["uuid", "u1"]] has been decoded.
C5_Witness ==
    /\ value = OneCell("Physical_Switch", "r1", "new", "ports", SetOfBarePair("u1"))
    /\ d = Err("invalid field")

\* C6: ["named-uuid", s] is tolerated where a UUID reference is
\* expected: in Tunnel.local / Tunnel.remote it decodes to s, as a member of
\* the set of a UuidSet column it decodes to the member s.
C6_NamedUuidTolerated ==
    d # Pending =>
        \A r \in Rows, h \in Halves, x \in Uuids :
            /\ \A tc \in UuidRefColumns :
                  value = OneCell(tc[1], r, h, tc[2], NamedUuidPair(x))
                      => IsOk(d) /\ DecodedCell(tc[1], r, h, tc[2]) = Some(x)
            /\ \A tc \in UuidSetColumns :
                  value = OneCell(tc[1], r, h, tc[2], SetOf(<<NamedUuidPair(x)>>))
                      => IsOk(d) /\ DecodedCell(tc[1], r, h, tc[2]) = Some(<<x>>)

\* The class of a row diff: a function of the presence of its halves.
Classification(rd) ==
    CASE rd.old = None /\ rd.new # None -> "insert"
      [] rd.old # None /\ rd.new = None -> "delete"
      [] rd.old # None /\ rd.new # None -> "modify"
      [] OTHER -> "none"

\* C7: Every row diff of a successfully decoded database diff is in
\* exactly one of the classes insert, delete, modify, by the presence of
\* its halves alone.
C7_ExactlyOneClass ==
    IsOk(d) =>
        \A rd \in DecodedRowDiffs :
            Classification(rd) \in {"insert", "delete", "modify"}

Without(p, u) == Obj([k \in DOMAIN p[2] \ {u} |-> p[2][k]])

\* C8: A database diff payload with a table name outside the modelled
\* tables decodes to what the same payload with that table removed decodes
\* to, whatever the table holds; so it decodes successfully when the rest
\* of it does.
C8_UnmodelledTableIgnored ==
    (d # Pending /\ value[1] = "object") =>
        \A u \in DOMAIN value[2] \ ModelledTables :
            /\ d = from_value_JsonDiff(Without(value, u))
            /\ Without(value, u) = EmptyObj => d = Ok(EmptyDiff)
            /\ Without(value, u) = InsertSwitch("sw1")
                  => d = Ok([EmptyDiff EXCEPT !.physical_switch =
                                "r1" :> [old |-> None,
                                         new |-> Some([name |-> Some("sw1"),
                                                       ports |-> None,
                                                       tunnel_ips |-> None,
                                                       tunnels |-> None])]])

\* C8 witness: a payload with Logical_Switch (holding a number, not even a
\* table) beside a Physical_Switch insert has been decoded, successfully.
C8_Witness ==
    /\ value = Obj(InsertSwitch("sw1")[2] @@ ("Logical_Switch" :> Num(1)))
    /\ IsOk(d)
    /\ DOMAIN d[2].physical_switch = {"r1"}

====
